---- MODULE Spec2Model ----
(***************************************************************************)
(* The OAuth credential lifecycle of the SCL-HUB user API.  The repository *)
(* holds several revisions of one service; a run of the model is a run of  *)
(* one of them (rev):                                                      *)
(*                                                                         *)
(*   "kv"    src/server.js 443-559: the credential record is persisted in  *)
(*           the KV store ('webflow_access_token',                         *)
(*           'webflow_refresh_token'), the client is cached process-wide,  *)
(*           /callback exchanges the code, refreshToken() refreshes and    *)
(*           /create-item retries once after a 401.                        *)
(*   "memA"  src/server.js 1-172: the token is the in-memory variable      *)
(*           webflowAccessToken, set from tokenResponse.access_token.      *)
(*   "memB"  src/unnamed/part_000 (and part_001, src/server.js 371-442):   *)
(*           webflowAccessToken is set from the value getAccessToken       *)
(*           resolved to.                                                  *)
(*                                                                         *)
(* Handlers are async functions on one event loop: a handler runs without  *)
(* interruption between two awaits of real I/O (a KV round trip, an HTTP   *)
(* call to the token endpoint or to the CMS), and other handlers may run   *)
(* at such an await.  One action below is one such run.  A kv.get is two   *)
(* steps (the store is read, later the handler resumes with the value); a  *)
(* kv.set is the step where the write lands in the store.                  *)
(*                                                                         *)
(* Access and refresh tokens are numbered by the token endpoint's answer    *)
(* that issued them: its n-th answer carries access token n and, when the  *)
(* endpoint sends one, refresh token n.  0 stands for absent / null.       *)
(***************************************************************************)
EXTENDS Integers, FiniteSets

\* The number of requests the token endpoint answers in one run.
MaxCalls == 2

\* The tokens of a credential record persisted by an earlier run of the
\* process (rev "kv"), or the token of WEBFLOW_ACCESS_TOKEN (rev "memA").
PriorId == MaxCalls + 1
TokenIds == 1..PriorId

\* The value of a property a JavaScript value does not have.
Undefined == -1

\* A response object where a token string is expected: truthy, no token.
Opaque == -2

\* Concurrent CMS requests and OAuth callback requests in flight.
Reqs == {"q1", "q2"}
Cbs == {"c1"}
Procs == Reqs \cup Cbs

Revs == {"kv", "memA", "memB"}

\* What WebflowClient.getAccessToken resolves to: the token string, or the
\* token endpoint's response object.
SdkShapes == {"string", "object"}

VARIABLES
    rev,           \* the revision of the service that runs
    kvAccess,      \* kv 'webflow_access_token'
    kvRefresh,     \* kv 'webflow_refresh_token'
    client,        \* the cached WebflowClient, by its access token (0: null)
    webflowAccessToken,  \* the in-memory token of revs "memA" and "memB"
    spent,         \* token endpoint: refresh tokens rotated away (single use)
    expired,       \* CMS: access tokens it answers 401 to (expired or revoked)
    tokenCalls,    \* requests that reached the token endpoint
    pc,            \* each handler's position
    wf,            \* local wf / webflow: the access token of the client the
                   \* handler holds
    accessToken,   \* local accessToken of getWebflowClient
    refreshToken,  \* local refreshToken of refreshToken()
    data,          \* local data: the token endpoint's parsed response
    rej,           \* the access token the CMS rejected in this request
    uid,           \* local uid of /api/get-my-clusters (req.query.uid)
    listed,        \* what /api/get-my-clusters answered in the last step:
                   \* the uid asked, the items the CMS listed, the items
                   \* and the status sent; NoListing after any other step
    code,          \* local code of the callback handler (req.query.code)
    sent,          \* what the request in flight has sent so far: its CMS
                   \* calls and its refresh requests to the token endpoint
    authTok,       \* recorded when audit: the access token of the last
                   \* callback that answered its success page, while no
                   \* expiry, no 401 and no new code exchange has happened
                   \* since (0: none)
    audit,         \* whether this run records authTok
    out            \* what the last step ended: the handler, the HTTP
                   \* response it sent ("none": it sent none) and the error
                   \* it ended with; NoOut after a step that ended no handler

vars == <<rev, kvAccess, kvRefresh, client, webflowAccessToken, spent,
          expired, tokenCalls, pc, wf, accessToken, refreshToken, data, rej,
          sent, code, uid, listed, authTok, audit, out>>

store == <<kvAccess, kvRefresh, client, webflowAccessToken>>
endpoint == <<spent, tokenCalls>>
locals == <<wf, accessToken, refreshToken, data, rej, sent, code, uid>>
run == <<rev, audit>>

NoneSent == [cms |-> 0, refresh |-> 0]

\* req.query.code of a request that carries none.
NoCode == 0

\* req.query.uid of a request that carries none.
NoUid == ""

\* The users' firebase uids.
Uids == {"u1", "u2"}

\* fieldData['firebase-uid'] of an item: a uid, or the field is not there.
NoField == "undefined"
FieldValues == Uids \cup {NoField}

\* The contents the collection can have: each item, by its id, with its
\* fieldData['firebase-uid'].
ItemIds == {"i1", "i2"}
Collections == UNION {[S -> FieldValues] : S \in SUBSET ItemIds}
NoItems == [i \in {} |-> NoField]

NoListing == [uid |-> NoUid, items |-> NoItems, body |-> NoItems,
              resp |-> "none"]

\* What req.query.code can be: absent, or a code.
Codes == {NoCode, 1}

NoData == [access |-> 0, refresh |-> 0]
NoOut == [who |-> "none", resp |-> "none", err |-> "none"]

\* The process starts with no cached client.  Rev "kv": the store is empty,
\* or holds the record an earlier run of the process persisted.  Rev "memA":
\* webflowAccessToken is process.env.WEBFLOW_ACCESS_TOKEN || null.  Rev
\* "memB": webflowAccessToken is null.
Start(a) ==
    /\ rev \in Revs
    /\ \/ /\ rev = "kv"
          /\ \/ kvAccess = 0 /\ kvRefresh = 0
             \/ kvAccess = PriorId /\ kvRefresh \in {0, PriorId}
          /\ webflowAccessToken = 0
       \/ /\ rev = "memA"
          /\ kvAccess = 0 /\ kvRefresh = 0
          /\ webflowAccessToken \in {0, PriorId}
       \/ /\ rev = "memB"
          /\ kvAccess = 0 /\ kvRefresh = 0
          /\ webflowAccessToken = 0
    /\ client = 0
    /\ spent = {}
    /\ expired = {}
    /\ tokenCalls = 0
    /\ pc = [p \in Procs |-> "idle"]
    /\ wf = [p \in Procs |-> 0]
    /\ accessToken = [p \in Procs |-> 0]
    /\ refreshToken = [p \in Procs |-> 0]
    /\ data = [p \in Procs |-> NoData]
    /\ rej = [p \in Procs |-> 0]
    /\ sent = [p \in Procs |-> NoneSent]
    /\ code = [p \in Procs |-> NoCode]
    /\ uid = [p \in Procs |-> NoUid]
    /\ listed = NoListing
    /\ authTok = 0
    /\ audit = a
    /\ out = NoOut

Init == Start(FALSE)

\* The same start, in a run that records authTok.
InitAudit == Start(TRUE)

\* The handler ends: the response r (or none), the error e it ended with
\* and, for /api/get-my-clusters, the listing l it answered.
Answer(p, r, e, l) ==
    /\ pc' = [pc EXCEPT ![p] = "idle"]
    /\ out' = [who |-> p, resp |-> r, err |-> e]
    /\ listed' = l
    /\ wf' = [wf EXCEPT ![p] = 0]
    /\ accessToken' = [accessToken EXCEPT ![p] = 0]
    /\ refreshToken' = [refreshToken EXCEPT ![p] = 0]
    /\ data' = [data EXCEPT ![p] = NoData]
    /\ rej' = [rej EXCEPT ![p] = 0]
    /\ sent' = [sent EXCEPT ![p] = NoneSent]
    /\ code' = [code EXCEPT ![p] = NoCode]
    /\ uid' = [uid EXCEPT ![p] = NoUid]

\* A handler other than /api/get-my-clusters ends.
End(p, r, e) == Answer(p, r, e, NoListing)

\* The request sends one more CMS call / one more refresh request.
CmsSent(p) == [sent EXCEPT ![p].cms = @ + 1]
RefreshSent(p) == [sent EXCEPT ![p].refresh = @ + 1]

\* What the client gets when the handler throws inside its catch block and
\* its promise rejects: nothing, where the framework leaves the rejection
\* unhandled, or the 500 of the framework's error handler, where it awaits
\* the handler.
Unhandled == {"none", "500"}

\* The handler moves on to position l.
Goto(p, l) ==
    /\ pc' = [pc EXCEPT ![p] = l]
    /\ out' = NoOut
    /\ listed' = NoListing

(***************************************************************************)
(* The token endpoint and the CMS.                                         *)
(***************************************************************************)

\* The number of the answer the token endpoint gives next.
NextId == tokenCalls + 1

\* What the token endpoint may answer to a refresh grant carrying r:
\* <<response, spent'>>.  A spent token is rejected; a valid one is rejected
\* (revoked), rotated (a new pair, r is spent) or answered with a new access
\* token and no new refresh token (r stays valid).
RefreshAnswers(r) ==
    IF r \in spent \/ r = 0
    THEN {<<NoData, spent>>}
    ELSE {<<NoData, spent>>,
          <<[access |-> NextId, refresh |-> NextId], spent \cup {r}>>,
          <<[access |-> NextId, refresh |-> 0], spent>>}

\* What the token endpoint may answer to an authorization-code grant: the
\* code is rejected, or a token response with or without a refresh token.
CodeAnswers ==
    {NoData,
     [access |-> NextId, refresh |-> NextId],
     [access |-> NextId, refresh |-> 0]}

\* The CMS answers 401 exactly to the access tokens it no longer accepts;
\* any call may also fail for another reason.
CmsAnswers(t) ==
    IF t \in expired \/ t = Opaque THEN {"401", "fail"} ELSE {"ok", "fail"}

\* The access tokens in use: the cached client's, the in-memory one and
\* those the requests in flight carry.
InUse ==
    ({client, webflowAccessToken} \cup {wf[q] : q \in Reqs}) \cap TokenIds

\* An access token in use stops being accepted upstream: its expires_in has
\* elapsed, or it was revoked.  The service keeps no expires_at.
Expire(t) ==
    /\ t \in InUse \ expired
    /\ expired' = expired \cup {t}
    /\ out' = NoOut
    /\ listed' = NoListing
    /\ UNCHANGED <<store, endpoint, pc, locals>>
    /\ authTok' = 0
    /\ UNCHANGED <<run>>

(***************************************************************************)
(* getWebflowClient and refreshToken(), as run by POST /create-item.       *)
(***************************************************************************)

\* getWebflowClient without its check of the value read.
HasAccessTokenUnchecked(a) == TRUE

\* if (!accessToken) throw new Error('Webflow API not authenticated.'), and
\* if (!webflowAccessToken) throw ... of the in-memory revisions.
HasAccessToken(a) == a \notin {0, Undefined}

\* line 478: if (!refreshToken) throw new Error('No refresh token found.')
HasRefreshToken(r) == r # 0

\* line 492: if (data.access_token)
RefreshAccepted(d) == d.access # 0

\* err.message.includes('401')
Is401(answer) == answer = "401"

\* POST /create-item arrives; getWebflowClient returns the cached client and
\* the first items.create is sent, or it asks the store for the access token.
CreateItemStart(p) ==
    /\ rev = "kv"
    /\ pc[p] = "idle"
    /\ Goto(p, IF client # 0 THEN "cms1" ELSE "g_kvget")
    /\ wf' = [wf EXCEPT ![p] = client]
    /\ sent' = IF client # 0 THEN CmsSent(p) ELSE sent
    /\ UNCHANGED <<store, endpoint, expired, accessToken, refreshToken,
                   data, rej, code, uid>>
    /\ UNCHANGED <<authTok, run>>

\* kv.get('webflow_access_token') reads the store.
GetClientKvGet(p) ==
    /\ pc[p] = "g_kvget"
    /\ accessToken' = [accessToken EXCEPT ![p] = kvAccess]
    /\ Goto(p, "g_resume")
    /\ UNCHANGED <<store, endpoint, expired, wf, refreshToken, data, rej,
                   sent, code, uid>>
    /\ UNCHANGED <<authTok, run>>

\* getWebflowClient resumes with the value read: it throws, which the
\* handler's catch answers with 500, or builds and caches the client, and
\* the first items.create is sent with it.
GetClientResume(p) ==
    /\ pc[p] = "g_resume"
    /\ IF HasAccessToken(accessToken[p])
       THEN /\ client' = accessToken[p]
            /\ wf' = [wf EXCEPT ![p] = accessToken[p]]
            /\ accessToken' = [accessToken EXCEPT ![p] = 0]
            /\ sent' = CmsSent(p)
            /\ Goto(p, "cms1")
            /\ UNCHANGED <<refreshToken, data, rej, code, uid>>
       ELSE /\ End(p, "500", "NotAuthenticated")
            /\ UNCHANGED client
    /\ UNCHANGED <<kvAccess, kvRefresh, webflowAccessToken, endpoint, expired>>
    /\ UNCHANGED <<authTok, run>>

\* The CMS answers the first items.create.
CmsFirst(p) ==
    /\ pc[p] = "cms1"
    /\ \E a \in CmsAnswers(wf[p]) :
         /\ IF a = "ok" THEN End(p, "200", "none")
            ELSE IF Is401(a)
            THEN /\ rej' = [rej EXCEPT ![p] = wf[p]]
                 /\ Goto(p, "rf_kvget")
                 /\ UNCHANGED <<wf, accessToken, refreshToken, data, sent, code, uid>>
            ELSE End(p, "500", "CmsError")
         /\ authTok' = IF Is401(a) THEN 0 ELSE authTok
    /\ UNCHANGED <<store, endpoint, expired, run>>

\* refreshToken(): kv.get('webflow_refresh_token') reads the store.
RefreshKvGet(p) ==
    /\ pc[p] = "rf_kvget"
    /\ refreshToken' = [refreshToken EXCEPT ![p] = kvRefresh]
    /\ Goto(p, "rf_post")
    /\ UNCHANGED <<store, endpoint, expired, wf, accessToken, data, rej,
                   sent, code, uid>>
    /\ UNCHANGED <<authTok, run>>

\* refreshToken() throws 'No refresh token found.' inside the handler's
\* catch block: the handler's promise rejects.
RefreshNoToken(p) ==
    /\ pc[p] = "rf_post"
    /\ ~HasRefreshToken(refreshToken[p])
    /\ \E r \in Unhandled : End(p, r, "NoRefreshToken")
    /\ UNCHANGED <<store, endpoint, expired>>
    /\ UNCHANGED <<authTok, run>>

\* The fetch of the token endpoint fails (network): the promise rejects.
RefreshFetchFails(p) ==
    /\ pc[p] = "rf_post"
    /\ HasRefreshToken(refreshToken[p])
    /\ \E r \in Unhandled : End(p, r, "FetchFailed")
    /\ UNCHANGED <<store, endpoint, expired>>
    /\ UNCHANGED <<authTok, run>>

\* The token endpoint answers the refresh grant.
RefreshFetch(p) ==
    /\ pc[p] = "rf_post"
    /\ HasRefreshToken(refreshToken[p])
    /\ tokenCalls < MaxCalls
    /\ \E ans \in RefreshAnswers(refreshToken[p]) :
         /\ data' = [data EXCEPT ![p] = ans[1]]
         /\ spent' = ans[2]
    /\ tokenCalls' = tokenCalls + 1
    /\ sent' = RefreshSent(p)
    /\ Goto(p, "rf_resp")
    /\ UNCHANGED <<store, expired, wf, accessToken, refreshToken, rej, code, uid>>
    /\ UNCHANGED <<authTok, run>>

\* refreshToken() resumes with data: the access token is written to the
\* store, or the failure is logged, refreshToken() returns, getWebflowClient
\* returns the cached client and items.create is sent again.
RefreshResp(p) ==
    /\ pc[p] = "rf_resp"
    /\ IF RefreshAccepted(data[p])
       THEN /\ kvAccess' = data[p].access
            /\ Goto(p, IF data[p].refresh # 0 THEN "rf_set_refresh"
                       ELSE "rf_client")
            /\ UNCHANGED <<wf, refreshToken, sent>>
       ELSE /\ wf' = [wf EXCEPT ![p] = client]
            /\ refreshToken' = [refreshToken EXCEPT ![p] = 0]
            /\ sent' = CmsSent(p)
            /\ Goto(p, "cms2")
            /\ UNCHANGED kvAccess
    /\ UNCHANGED <<kvRefresh, client, webflowAccessToken, endpoint, expired, accessToken, data,
                   rej, code, uid>>
    /\ UNCHANGED <<authTok, run>>

\* kv.set('webflow_refresh_token', data.refresh_token) lands.
RefreshSetRefresh(p) ==
    /\ pc[p] = "rf_set_refresh"
    /\ kvRefresh' = data[p].refresh
    /\ Goto(p, "rf_client")
    /\ UNCHANGED <<kvAccess, client, webflowAccessToken, endpoint, expired, locals>>
    /\ UNCHANGED <<authTok, run>>

\* The cached client is rebuilt, refreshToken() returns, getWebflowClient
\* returns the cached client and items.create is sent again.
RefreshSetClient(p) ==
    /\ pc[p] = "rf_client"
    /\ client' = data[p].access
    /\ wf' = [wf EXCEPT ![p] = client']
    /\ refreshToken' = [refreshToken EXCEPT ![p] = 0]
    /\ sent' = CmsSent(p)
    /\ Goto(p, "cms2")
    /\ UNCHANGED <<kvAccess, kvRefresh, webflowAccessToken, endpoint, expired, accessToken, data,
                   rej, code, uid>>
    /\ UNCHANGED <<authTok, run>>

\* As CmsRetry, but a 401 on the retried call starts another refresh.
CmsRetryLoop(p) ==
    /\ pc[p] = "cms2"
    /\ \E a \in CmsAnswers(wf[p]) :
         /\ IF a = "ok" THEN End(p, "200", "none")
            ELSE IF Is401(a)
            THEN /\ rej' = [rej EXCEPT ![p] = wf[p]]
                 /\ Goto(p, "rf_kvget")
                 /\ UNCHANGED <<wf, accessToken, refreshToken, data, sent, code, uid>>
            ELSE \E r \in Unhandled : End(p, r, "CmsError")
         /\ authTok' = IF Is401(a) THEN 0 ELSE authTok
    /\ UNCHANGED <<store, endpoint, expired, run>>

\* The CMS answers the retried items.create; a failure is thrown inside the
\* catch block and the handler's promise rejects.
CmsRetry(p) ==
    /\ pc[p] = "cms2"
    /\ \E a \in CmsAnswers(wf[p]) :
         /\ IF a = "ok" THEN End(p, "200", "none")
            ELSE \E r \in Unhandled : End(p, r, "CmsError")
         /\ authTok' = IF Is401(a) THEN 0 ELSE authTok
    /\ UNCHANGED <<store, endpoint, expired, run>>

(***************************************************************************)
(* GET /callback                                                           *)
(***************************************************************************)

\* /callback storing whatever the token endpoint answered.
ExchangeAcceptedUnchecked(d) == TRUE

\* line 520: if (data.access_token)
ExchangeAccepted(d) == d.access # 0

HasCodeUnchecked(cd) == TRUE

\* if (!code) return res.status(400)
HasCode(cd) == cd # NoCode

\* GET /callback (or /auth/callback) without a code.
CallbackNoCode(c) ==
    /\ pc[c] = "idle"
    /\ \E cd \in Codes : ~HasCode(cd)
    /\ End(c, "400", "MissingCode")
    /\ UNCHANGED <<store, endpoint, expired>>
    /\ UNCHANGED <<authTok, run>>

\* GET /callback with a code: the exchange is sent to the token endpoint.
CallbackStart(c) ==
    /\ rev = "kv"
    /\ pc[c] = "idle"
    /\ \E cd \in Codes :
         /\ HasCode(cd)
         /\ code' = [code EXCEPT ![c] = cd]
    /\ Goto(c, "cb_post")
    /\ UNCHANGED <<store, endpoint, expired, wf, accessToken, refreshToken,
                   data, rej, sent, uid>>
    /\ UNCHANGED <<run>>
    /\ authTok' = 0

\* The fetch of the token endpoint throws: the catch answers 500.
CallbackFetchFails(c) ==
    /\ pc[c] = "cb_post"
    /\ End(c, "500", "FetchFailed")
    /\ UNCHANGED <<store, endpoint, expired>>
    /\ UNCHANGED <<authTok, run>>

\* The token endpoint answers the authorization-code grant.
CallbackFetch(c) ==
    /\ pc[c] = "cb_post"
    /\ tokenCalls < MaxCalls
    /\ \E ans \in CodeAnswers : data' = [data EXCEPT ![c] = ans]
    /\ tokenCalls' = tokenCalls + 1
    /\ Goto(c, "cb_resp")
    /\ UNCHANGED <<store, spent, expired, wf, accessToken,
                   refreshToken, rej, sent, code, uid>>
    /\ UNCHANGED <<authTok, run>>

\* The handler resumes with data: the access token is written to the store,
\* or 'OAuth failed.' is answered.
CallbackResp(c) ==
    /\ pc[c] = "cb_resp"
    /\ IF ExchangeAccepted(data[c])
       THEN /\ kvAccess' = data[c].access
            /\ Goto(c, "cb_set_refresh")
            /\ UNCHANGED locals
       ELSE /\ End(c, "500", "NoAccessToken")
            /\ UNCHANGED kvAccess
    /\ UNCHANGED <<kvRefresh, client, webflowAccessToken, endpoint, expired>>
    /\ UNCHANGED <<authTok, run>>

\* kv.set('webflow_refresh_token', data.refresh_token) lands.  With no
\* refresh token in the response the value is undefined: the store then
\* holds no usable refresh token, or the client library rejects the command
\* and the catch answers 500.
CallbackSetRefresh(c) ==
    /\ pc[c] = "cb_set_refresh"
    /\ \/ /\ kvRefresh' = data[c].refresh
          /\ Goto(c, "cb_client")
          /\ UNCHANGED locals
       \/ /\ data[c].refresh = 0
          /\ End(c, "500", "KvSetFailed")
          /\ UNCHANGED kvRefresh
    /\ UNCHANGED <<kvAccess, client, webflowAccessToken, endpoint, expired>>
    /\ UNCHANGED <<authTok, run>>

\* The cached client is rebuilt and the success page is sent.
CallbackSetClient(c) ==
    /\ pc[c] = "cb_client"
    /\ client' = data[c].access
    /\ End(c, "200", "none")
    /\ UNCHANGED <<kvAccess, kvRefresh, webflowAccessToken, endpoint, expired>>
    /\ authTok' = IF audit THEN data[c].access ELSE 0
    /\ UNCHANGED <<run>>

(***************************************************************************)
(* The in-memory revisions: GET /auth/callback and the CMS endpoints.      *)
(***************************************************************************)

\* line 51 (rev "memA"): webflowAccessToken = tokenResponse.access_token;
\* part_000 line 38 (rev "memB"): webflowAccessToken = token.  t is the
\* token the endpoint issued, shape what getAccessToken resolved to.
Stored(r, shape, t) ==
    IF r = "memA"
    THEN IF shape = "object" THEN t ELSE Undefined
    ELSE IF shape = "string" THEN t ELSE Opaque

\* GET /auth/callback with a code: getAccessToken sends the exchange.
AuthCallbackStart(c) ==
    /\ rev # "kv"
    /\ pc[c] = "idle"
    /\ \E cd \in Codes :
         /\ HasCode(cd)
         /\ code' = [code EXCEPT ![c] = cd]
    /\ Goto(c, "ac_post")
    /\ UNCHANGED <<store, endpoint, expired, wf, accessToken, refreshToken,
                   data, rej, sent, uid>>
    /\ UNCHANGED <<run>>
    /\ authTok' = 0

\* getAccessToken throws (the code is rejected, or the network fails): the
\* catch answers 500.
AuthCallbackThrows(c) ==
    /\ pc[c] = "ac_post"
    /\ End(c, "500", "ExchangeFailed")
    /\ UNCHANGED <<store, endpoint, expired>>
    /\ UNCHANGED <<authTok, run>>

\* getAccessToken resolves: the token is kept in memory and the success
\* page is sent.
AuthCallbackReturns(c) ==
    /\ pc[c] = "ac_post"
    /\ tokenCalls < MaxCalls
    /\ \E shape \in SdkShapes :
         webflowAccessToken' = Stored(rev, shape, NextId)
    /\ tokenCalls' = tokenCalls + 1
    /\ End(c, "200", "none")
    /\ authTok' = IF audit THEN NextId ELSE 0
    /\ UNCHANGED <<kvAccess, kvRefresh, client, spent, expired, run>>

\* A CMS endpoint is requested: getWebflowClient throws, which the catch
\* answers with 500, or builds a client from webflowAccessToken, and the
\* CMS call is sent with it.
CmsRequestStart(p) ==
    /\ rev # "kv"
    /\ pc[p] = "idle"
    /\ IF HasAccessToken(webflowAccessToken)
       THEN /\ wf' = [wf EXCEPT ![p] = webflowAccessToken]
            /\ sent' = CmsSent(p)
            /\ Goto(p, "cms")
            /\ UNCHANGED <<accessToken, refreshToken, data, rej, code, uid>>
       ELSE End(p, "500", "NotAuthenticated")
    /\ UNCHANGED <<store, endpoint, expired>>
    /\ UNCHANGED <<authTok, run>>

\* As CmsRequestDone, but a 401 makes the handler forget the stored token.
CmsRequestDoneForgets(p) ==
    /\ pc[p] = "cms"
    /\ \E a \in CmsAnswers(wf[p]) :
         /\ IF a = "ok" THEN End(p, "200", "none")
            ELSE End(p, "500", "CmsError")
         /\ webflowAccessToken' = IF Is401(a) THEN 0 ELSE webflowAccessToken
         /\ authTok' = IF Is401(a) THEN 0 ELSE authTok
    /\ UNCHANGED <<kvAccess, kvRefresh, client, endpoint, expired, run>>

\* The CMS answers: the result is sent, or the catch answers 500.
CmsRequestDone(p) ==
    /\ pc[p] = "cms"
    /\ \E a \in CmsAnswers(wf[p]) :
         /\ IF a = "ok" THEN End(p, "200", "none")
            ELSE End(p, "500", "CmsError")
         /\ authTok' = IF Is401(a) THEN 0 ELSE authTok
    /\ UNCHANGED <<store, endpoint, expired, run>>

\* if (!uid) return res.status(400)
HasUid(u) == u # NoUid

\* items.filter(item => item.fieldData['firebase-uid'] === uid)
UserItems(items, u) ==
    [i \in {j \in DOMAIN items : items[j] = u} |-> items[i]]

\* What the handler answers before it calls the CMS ("none": it goes on).
\* Rev "memA" tests the uid and then builds the client; rev "memB" builds
\* the client, which throws without a token, and then tests the uid.
Refusal(u) ==
    IF rev = "memA"
    THEN IF ~HasUid(u) THEN "400"
         ELSE IF ~HasAccessToken(webflowAccessToken) THEN "500" ELSE "none"
    ELSE IF ~HasAccessToken(webflowAccessToken) THEN "500"
         ELSE IF ~HasUid(u) THEN "400" ELSE "none"

\* GET /api/get-my-clusters arrives: it is refused, or items.list is sent.
GetMyClustersStart(p) ==
    /\ rev # "kv"
    /\ pc[p] = "idle"
    /\ \E u \in Uids \cup {NoUid} :
         IF Refusal(u) = "none"
         THEN /\ wf' = [wf EXCEPT ![p] = webflowAccessToken]
              /\ uid' = [uid EXCEPT ![p] = u]
              /\ sent' = CmsSent(p)
              /\ Goto(p, "list")
              /\ UNCHANGED <<accessToken, refreshToken, data, rej, code>>
         ELSE Answer(p, Refusal(u),
                     IF Refusal(u) = "400" THEN "MissingUid"
                     ELSE "NotAuthenticated",
                     [uid |-> u, items |-> NoItems, body |-> NoItems,
                      resp |-> Refusal(u)])
    /\ UNCHANGED <<store, endpoint, expired>>
    /\ UNCHANGED <<authTok, run>>

\* The CMS answers items.list: the user's items are sent, or the catch
\* answers 500.
GetMyClustersDone(p) ==
    /\ pc[p] = "list"
    /\ \E a \in CmsAnswers(wf[p]) :
         /\ IF a = "ok"
            THEN \E items \in Collections :
                   Answer(p, "200", "none",
                          [uid |-> uid[p], items |-> items,
                           body |-> UserItems(items, uid[p]),
                           resp |-> "200"])
            ELSE Answer(p, "500", "CmsError",
                        [uid |-> uid[p], items |-> NoItems,
                         body |-> NoItems, resp |-> "500"])
         /\ authTok' = IF Is401(a) THEN 0 ELSE authTok
    /\ UNCHANGED <<store, endpoint, expired, run>>

Next ==
    \/ \E p \in Reqs : CreateItemStart(p)
    \/ \E p \in Reqs : GetClientKvGet(p)
    \/ \E p \in Reqs : GetClientResume(p)
    \/ \E p \in Reqs : CmsFirst(p)
    \/ \E p \in Reqs : RefreshKvGet(p)
    \/ \E p \in Reqs : RefreshNoToken(p)
    \/ \E p \in Reqs : RefreshFetchFails(p)
    \/ \E p \in Reqs : RefreshFetch(p)
    \/ \E p \in Reqs : RefreshResp(p)
    \/ \E p \in Reqs : RefreshSetRefresh(p)
    \/ \E p \in Reqs : RefreshSetClient(p)
    \/ \E p \in Reqs : CmsRetry(p)
    \/ \E c \in Cbs : CallbackNoCode(c)
    \/ \E c \in Cbs : CallbackStart(c)
    \/ \E c \in Cbs : CallbackFetchFails(c)
    \/ \E c \in Cbs : CallbackFetch(c)
    \/ \E c \in Cbs : CallbackResp(c)
    \/ \E c \in Cbs : CallbackSetRefresh(c)
    \/ \E c \in Cbs : CallbackSetClient(c)
    \/ \E c \in Cbs : AuthCallbackStart(c)
    \/ \E c \in Cbs : AuthCallbackThrows(c)
    \/ \E c \in Cbs : AuthCallbackReturns(c)
    \/ \E p \in Reqs : CmsRequestStart(p)
    \/ \E p \in Reqs : CmsRequestDone(p)
    \/ \E p \in Reqs : GetMyClustersStart(p)
    \/ \E p \in Reqs : GetMyClustersDone(p)
    \/ \E t \in TokenIds : Expire(t)

Spec == Init /\ [][Next]_vars

SpecAudit == InitAudit /\ [][Next]_vars

(***************************************************************************)
(* Properties of the credential lifecycle.                                 *)
(***************************************************************************)

\* A refresh request has been answered by the token endpoint and
\* refreshToken() has not returned yet.
Posted(p) == pc[p] \in {"rf_resp", "rf_set_refresh", "rf_client"}

\* The request has seen the 401 and its refresh has not reached the token
\* endpoint.
Rejected(p) == pc[p] \in {"rf_kvget", "rf_post"}

\* A CMS call carrying wf[p] is in flight.
Calling(p) == pc[p] \in {"cms1", "cms2", "cms", "list"}

\* This step hands request p the access token wf'[p] for a CMS call.
HandedToken(p) ==
    pc'[p] # pc[p] /\ pc'[p] \in {"cms1", "cms2", "cms", "list"}

\* C1: single-flight refresh.  Of the requests that saw the 401 while a
\* refresh token is stored, one only presents that refresh token to the token
\* endpoint: no two requests have each sent a refresh request carrying the
\* same stored refresh token.
SingleFlightRefresh ==
    \A p, q \in Reqs :
        (p # q /\ Posted(p) /\ Posted(q)) => refreshToken[p] # refreshToken[q]

\* C2: reactive expiry.  Once the CMS has answered 401 to an access token,
\* that token is handed to no request before a refresh was attempted; and
\* the call retried after a successful refresh carries the access token of
\* the refresh response, not the rejected one.
ReactiveExpiry ==
    [][\A p \in Reqs :
          /\ \A q \in Reqs \ {p} :
                 (Rejected(q) /\ HandedToken(p)) => wf'[p] # rej[q]
          /\ (HandedToken(p) /\ pc'[p] = "cms2" /\ RefreshAccepted(data[p]))
                 => (wf'[p] = data[p].access /\ wf'[p] # rej[p])]_vars

\* C3: when refreshToken() returns after a successful refresh the stored
\* record is the refresh response in full: the stored access token and the
\* stored refresh token are those of the response, and the refresh token
\* that was presented is no longer the stored one.
RefreshReplacesRecord ==
    [][\A p \in Reqs :
          (pc[p] = "rf_client" /\ pc'[p] = "cms2") =>
              /\ kvAccess' = data[p].access
              /\ kvRefresh' = data[p].refresh
              /\ kvRefresh' # refreshToken[p]]_vars

\* C4: after a refresh the token endpoint rejected, the old access token is
\* not used for a later CMS call: a request that goes on after the rejected
\* refresh does not carry the access token the CMS rejected.
RejectedRefreshStopsRequest ==
    \A p \in Reqs :
        (pc[p] = "cms2" /\ ~RefreshAccepted(data[p])) => wf[p] # rej[p]

\* C5: after the callback has answered its success page, and until a token
\* expires, the CMS answers 401 or another exchange begins, the exchanged
\* access token is the stored one and the one getWebflowClient() returns
\* (the cached client or webflowAccessToken, which it returns without any
\* request to the token endpoint).
CallbackPersistsExchangedToken ==
    authTok # 0 =>
        IF rev = "kv"
        THEN kvAccess = authTok /\ client = authTok
        ELSE webflowAccessToken = authTok

\* This step is a step of callback c before the exchange is known accepted,
\* or the step that finds it rejected.
ExchangeStep(c) ==
    /\ pc'[c] # pc[c]
    /\ \/ pc[c] \in {"idle", "cb_post", "ac_post"} /\ pc'[c] # "idle"
       \/ pc[c] = "cb_resp" /\ data[c].access = 0

\* This step ends callback c with its exchange rejected: the fetch or
\* getAccessToken throws, or the response has no access_token.
RejectedExchange(c) ==
    /\ pc'[c] = "idle"
    /\ \/ pc[c] = "cb_post"
       \/ pc[c] = "cb_resp" /\ data[c].access = 0
       \/ pc[c] = "ac_post" /\ tokenCalls' = tokenCalls

\* C6: a callback whose exchange is rejected writes neither the store, nor
\* the cached client, nor webflowAccessToken in any of its steps, and
\* answers 500.
RejectedCodeLeavesRecord ==
    [][\A c \in Cbs :
          /\ (ExchangeStep(c) \/ RejectedExchange(c)) => UNCHANGED store
          /\ RejectedExchange(c) => (out'.who = c /\ out'.resp = "500")]_vars

\* A stored record has survived a rejected exchange.
RejectedCodeWitness ==
    /\ out.who \in Cbs
    /\ out.resp = "500"
    /\ out.err \in {"NoAccessToken", "FetchFailed"}
    /\ kvAccess # 0
    /\ client # 0

\* C7: while no refresh token is stored, no request is handed an access
\* token that is expired or that the CMS rejects, and refreshToken(), having
\* read none, throws and sends nothing to the token endpoint.
NoRefreshTokenNoCall ==
    [][\A p \in Reqs :
          /\ (rev = "kv" /\ kvRefresh = 0 /\ HandedToken(p)) =>
                 wf'[p] \notin expired
          /\ (pc[p] = "rf_kvget" /\ kvRefresh = 0 /\ pc'[p] # pc[p]) =>
                 (pc'[p] = "rf_post" /\ refreshToken'[p] = 0)
          /\ (pc[p] = "rf_post" /\ refreshToken[p] = 0 /\ pc'[p] # pc[p]) =>
                 /\ UNCHANGED endpoint
                 /\ pc'[p] = "idle"
                 /\ out'.err = "NoRefreshToken"]_vars

\* C8: proactive expiry.  While a refresh token is stored, no request is
\* handed an access token whose lifetime is already over: getWebflowClient
\* refreshes first.
NoExpiredTokenHandedOut ==
    [][\A p \in Reqs :
          (pc[p] \in {"idle", "g_resume"} /\ pc'[p] = "cms1"
             /\ kvRefresh # 0) =>
              wf'[p] \notin expired]_vars

\* No access token is stored.
Unauthenticated ==
    IF rev = "kv" THEN kvAccess = 0 ELSE ~HasAccessToken(webflowAccessToken)

\* C9: while no access token is stored there is no cached client, a token
\* acquisition that finds none ends the request with the not-authenticated
\* error, and no CMS call is ever sent without an access token.
UnauthenticatedFails ==
    [][\A p \in Reqs :
          /\ Unauthenticated' => client' = 0
          /\ Calling(p)' => HasAccessToken(wf'[p])
          /\ (pc'[p] # pc[p]
                /\ \/ pc[p] = "g_resume" /\ accessToken[p] = 0
                   \/ pc[p] = "idle" /\ rev # "kv" /\ Unauthenticated) =>
                 /\ pc'[p] = "idle"
                 /\ out' = [who |-> p, resp |-> "500",
                            err |-> "NotAuthenticated"]]_vars

\* A request was refused in state UNAUTHENTICATED.
UnauthenticatedWitness ==
    /\ out.who \in Reqs
    /\ out.err = "NotAuthenticated"
    /\ Unauthenticated

\* C10: the two store writes of one refresh are not interleaved with the
\* store writes of another refresh: while a refresh is between its write of
\* the access token and its write of the refresh token, no other refresh
\* writes the record.
RefreshWritesAtomic ==
    [][\A p, q \in Reqs :
          (p # q /\ pc[p] = "rf_set_refresh" /\ Posted(q) /\ pc'[q] # pc[q]) =>
              (kvAccess' = kvAccess /\ kvRefresh' = kvRefresh)]_vars

\* C11: once an access token is stored, no step of the service leaves the
\* stored access token absent, null or undefined.
NeverBackToUnauthenticated ==
    [][~Unauthenticated => ~Unauthenticated']_vars
\* C12: a request in flight has sent at most one refresh request to the
\* token endpoint and at most two CMS calls.
NoRetryLoop ==
    \A p \in Procs : sent[p].refresh <= 1 /\ sent[p].cms <= 2

\* A request whose first call was rejected has refreshed once and waits for
\* the answer to its second CMS call.
NoRetryLoopWitness ==
    \E p \in Reqs :
        pc[p] = "cms2" /\ sent[p].refresh = 1 /\ sent[p].cms = 2

\* C13: a callback request without a code is answered 400 in the step it
\* arrives, with no request to the token endpoint and the stored credential
\* unchanged; only a request that carries a code goes on to the exchange.
MissingCodeAnswered ==
    [][\A c \in Cbs :
         /\ pc'[c] # "idle" => code'[c] # NoCode
         /\ (pc[c] = "idle" /\ out'.who = c)
              => /\ out'.resp = "400"
                 /\ out'.err = "MissingCode"
                 /\ UNCHANGED <<store, endpoint>>]_vars

\* A callback without a code has just been answered 400 while a credential
\* is stored.
MissingCodeWitness ==
    /\ out.who \in Cbs
    /\ out.err = "MissingCode"
    /\ out.resp = "400"
    /\ ~Unauthenticated

\* The stored access token and refresh token.
record == <<kvAccess, kvRefresh, webflowAccessToken>>

\* A step of one of the CMS endpoints /api/get-my-clusters ... upload-image.
CmsEndpointStep(p) == rev # "kv" /\ (pc'[p] # pc[p] \/ out'.who = p)

\* The step is a callback's or a refresh's write of a token it was granted.
CredentialWrite(p) ==
    /\ pc[p] \in {"rf_resp", "rf_set_refresh", "cb_resp", "cb_set_refresh",
                  "ac_post"}
    /\ pc'[p] # pc[p] \/ out'.who = p

\* C14: no step of a CMS endpoint, ending in success or in failure, changes
\* the stored access token or refresh token; a step that changes them is a
\* callback's or a refresh's write.
OnlyCredentialOperationsWrite ==
    [][/\ \A p \in Reqs : CmsEndpointStep(p) => UNCHANGED record
       /\ record' # record => \E p \in Procs : CredentialWrite(p)]_vars

\* A CMS endpoint has just answered a failed CMS call with 500 while an
\* access token is stored.
CmsEndpointFailedWitness ==
    /\ rev # "kv"
    /\ out.who \in Reqs
    /\ out.err = "CmsError"
    /\ webflowAccessToken \in TokenIds

\* C15: /api/get-my-clusters answers with exactly the listed items whose
\* firebase-uid is the uid asked, and a request without a uid is answered
\* 400 with no items.
OwnershipFilter ==
    /\ listed.resp = "200" =>
          /\ DOMAIN listed.body \subseteq DOMAIN listed.items
          /\ \A i \in DOMAIN listed.items :
                /\ i \in DOMAIN listed.body <=> listed.items[i] = listed.uid
                /\ i \in DOMAIN listed.body =>
                      listed.body[i] = listed.items[i]
    /\ (listed.resp # "none" /\ listed.uid = NoUid) =>
          listed.resp = "400" /\ listed.body = NoItems

\* C16: a /create-item request whose handler has ended has been sent an HTTP
\* response, whichever path the handler took.
CreateItemAnswered ==
    (rev = "kv" /\ out.who \in Reqs) => out.resp # "none"

\* A /callback exchange or a refreshToken() call is under way.
MidFlight(p) ==
    pc[p] \in {"rf_kvget", "rf_post", "rf_resp", "rf_set_refresh",
               "rf_client", "cb_post", "cb_resp", "cb_set_refresh",
               "cb_client"}

\* C17: while no callback and no refresh is mid-flight, the cached client,
\* when there is one, carries the access token stored under
\* 'webflow_access_token'.
CacheStoreCoherent ==
    (rev = "kv" /\ client # 0 /\ \A p \in Procs : ~MidFlight(p))
        => client = kvAccess

====
